---- MODULE Spec2Model ----
(***************************************************************************)
(* Sequential execution coordinator of mcp-tts: the in-process ttsMutex,   *)
(* the directory lock /tmp/mcp-tts-global.lock.d with its content.json     *)
(* record, and the tool handlers that take the composed lock.              *)
(*                                                                         *)
(* A task is one tool-handler invocation (one goroutine serving a request) *)
(* with its context; tasks are spread over OS processes.  Each call of     *)
(* acquireTTSLock starts the goroutine that blocks in ttsMutex.Lock()      *)
(* (g1) and each call of acquireGlobalTTSLock starts the goroutine that    *)
(* runs ttsMutexFile.acquireLock (g2); both outlive the call when the      *)
(* caller's select takes the ctx.Done() branch.                            *)
(***************************************************************************)
EXTENDS Naturals, FiniteSets, Sequences, TLC

\* ---------------------------------------------------------------- bounds
\* processes killed, contexts fired and os.Mkdir errors in one behaviour
MaxCrashes == 1
MaxCancels == 1
MaxFsErrors == 1

\* Two server processes on the host; handler invocations 1 and 3 run
\* concurrently in process 2, invocation 2 runs in process 1.
Tasks == {1, 2, 3}
Procs == {1, 2}
ProcOf(t) == 1 + (t % 2)

NoTask == 0
NoPid == 0
\* the lock path holds no directory
NoDir == [owner |-> NoTask, rec |-> "absent", pid |-> NoPid, old |-> FALSE]
\* content.json: not there, unparseable, or a lockContent with its PID
Records == {"none", "corrupt", "valid"}

VARIABLES
    sequentialTTS,  \* [Procs -> BOOLEAN]   root.go: var sequentialTTS
    alive,          \* [Procs -> BOOLEAN]   the process exists on the host
    ttsMutex,       \* [Procs -> Tasks \cup {NoTask}]  acquisition whose goroutine locked it
    lockDir,        \* the directory at globalTTSLockDir: NoDir, or its creator, record and age
    ctxDone,        \* [Tasks -> BOOLEAN]   the handler's context has fired
    pc,             \* [Tasks -> STRING]    position of the handler goroutine, or how it returned
    g1,             \* [Tasks -> STRING]    goroutine of acquireTTSLock (ttsMutex.Lock)
    g2,             \* [Tasks -> STRING]    goroutine of acquireGlobalTTSLock (acquireLock)
    released,       \* [Tasks -> Nat]       invocations of the release function
    judged          \* [Tasks -> Tasks \cup {NoTask}]  creator of the directory the latest
                    \* isStale of this acquisition examined (NoTask: none was there)

vars == <<sequentialTTS, alive, ttsMutex, lockDir, ctxDone, pc, g1, g2, released, judged>>

\* The CancellationManager of one process (cancellation_manager.go). A
\* registration is one successful RegisterCancellable call: it stores its
\* cancelFunc in cm.cancellable and the timer it created in cm.timeouts.
VARIABLES
    cancellable,    \* [Keys -> registration]  cm.cancellable: whose cancelFunc is stored
    timeouts,       \* [Keys -> registration]  cm.timeouts: whose timer is stored
    regs,           \* sequence of registrations: key closed over by the timer callback,
                    \* state of the timer, invocations of the cancelFunc
    last,           \* the latest call on the manager and what it returned
    row             \* successful RegisterCancellable calls in a row with the id of last

cmVars == <<cancellable, timeouts, regs, last, row>>

\* The calls of WithCancellation in that process (cancellable_wrapper.go) and
\* one call of isProcessAlive on some host (process_unix.go, process_windows.go)
VARIABLES
    wrapper,        \* [Ops -> call]  position and locals of each WithCancellation call
    probe,          \* the platform, the host's processes, the pid asked and the answer
    play            \* one tool call between getting the lock and returning (root.go)

\* ------------------------------------------------------- pure functions

\* isProcessAlive(pid): signal 0 succeeds or fails with EPERM iff the process exists
isProcessAlive(pid) == alive[pid]

\* isStale that lets a dead holder's lock go only once it is older than the grace period
isStaleAgeGated(d) ==
    IF d.rec = "valid"
    THEN (~isProcessAlive(d.pid)) /\ d.old
    ELSE IF d.rec = "absent" THEN TRUE ELSE d.old

\* isStale that times out a live holder by age
isStaleAgeOnly(d) ==
    IF d.rec = "valid"
    THEN (~isProcessAlive(d.pid)) \/ d.old
    ELSE IF d.rec = "absent" THEN TRUE ELSE d.old

\* isStale that gives up a lock without a readable record at once
isStaleUnreadable(d) ==
    IF d.rec = "valid"
    THEN ~isProcessAlive(d.pid)
    ELSE TRUE

\* ttsMutexFile.isStale on the directory d found at the lock path
isStale(d) ==
    IF d.rec = "valid"
    THEN ~isProcessAlive(d.pid)           \* record parses: liveness decides
    ELSE IF d.rec = "absent"
         THEN TRUE                        \* os.Stat fails: assume stale
         ELSE d.old                       \* missing/corrupt record: age > grace


\* ------------------------------------------------------------ the state

Live(t) == alive[ProcOf(t)]

\* How a handler that did not get the lock returned: the token had fired on
\* entry; acquireTTSLock returned ctx.Err() from its own select ("failLocal"),
\* from the select of acquireGlobalTTSLock ("failGlobal") or from acquireLock
\* ("failLoop"); or the error of os.Mkdir ("failFs").
Failed == {"cancelledEarly", "failLocal", "failGlobal", "failLoop", "failFs"}
MainPc == {"idle", "selLocal", "selGlobal", "holding", "rel1", "rel2", "rel3", "done", "dead"}
              \cup Failed
G1Pc == {"none", "lock", "locked", "closed"}
G2Pc == {"none", "mkdir", "write", "stale", "rename", "wait", "sentOk", "sentCtx", "sentFs"}
Outcome == {"ok", "error", "cancelled"}

DirState ==
    [owner : Tasks \cup {NoTask}, rec : Records \cup {"absent"}, pid : Procs \cup {NoPid},
     old : BOOLEAN]

\* ------------------------------------- the state of the CancellationManager

\* calls to RegisterCancellable that get past the capacity check in one behaviour
MaxRegistrations == 3
\* timers that reach DefaultCleanupTimeout in one behaviour
MaxExpiries == 1
\* cm.maxRequests, scaled down from MaxConcurrentRequests
maxRequests == 2

\* A request id is a string: name stands for its first 256 bytes (EmptyName
\* for none) and long tells whether more bytes follow. The keys of the two
\* maps are the ids that have no byte beyond the 256th.
Names == {1, 2, 3}
EmptyName == 0
AllIDs ==
    [name : Names \cup {EmptyName}, long : BOOLEAN] \ {[name |-> EmptyName, long |-> TRUE]}
Keys == {id \in AllIDs : ~id.long}
EmptyID == [name |-> EmptyName, long |-> FALSE]

\* the ids WithCancellation and HandleCancellationNotification hand to the
\* manager: sanitizeRequestID, sanitizeNotificationRequestID, strconv.Itoa and
\* the generated "<tool>-<timestamp>" are never empty and at most 128 bytes
SanitizedIDs == {id \in Keys : id # EmptyID}

\* requestID[:256] when len(requestID) > 256
Truncate(requestID) == IF requestID.long THEN [requestID EXCEPT !.long = FALSE] ELSE requestID

NoReg == 0
TimerStates == {"running", "stopped", "fired", "done"}
Registration == [id : Keys, timer : TimerStates, invoked : 0..2]
CallNames == {"none", "RegisterCancellable", "Cancel", "Complete", "Shutdown", "timer"}
Returns == {"-", "nil", "ErrTooManyRequests", "true", "false"}
NoCall == [op |-> "none", id |-> EmptyID, ret |-> "-"]

CMTypeOK ==
    /\ cancellable \in [Keys -> 0..MaxRegistrations]
    /\ timeouts \in [Keys -> 0..MaxRegistrations]
    /\ regs \in Seq(Registration) /\ Len(regs) <= MaxRegistrations
    /\ last \in [op : CallNames, id : AllIDs, ret : Returns]
    /\ row \in 0..MaxRegistrations

\* NewCancellationManager()
CMInit ==
    /\ cancellable = [key \in Keys |-> NoReg]
    /\ timeouts = [key \in Keys |-> NoReg]
    /\ regs = <<>>
    /\ last = NoCall
    /\ row = 0

\* ------------------------------------------- the calls of WithCancellation

\* Three tool calls go through WithCancellation in the process of the manager
Ops == {1, 2, 3}
NoResult == "-"
\* Where a call is: not made yet; in handler(cancellableCtx, request) after a
\* successful RegisterCancellable; in handler(ctx, request) after a failed
\* one; returned.
WrapPc == {"idle", "handler", "fallback", "returned"}
\* requestID (a local: EmptyID before and after the call), the registration
\* RegisterCancellable made (NoReg: none), the
\* context handed to the handler, how often the handler was entered, how often
\* the call invoked Complete, what the handler returned and what the wrapper did
Call ==
    [pc : WrapPc, requestID : Keys, reg : 0..MaxRegistrations,
     ctx : {"-", "cancellableCtx", "ctx"}, runs : 0..2, completes : 0..2,
     result : Outcome \cup {NoResult}, ret : Outcome \cup {NoResult}]
NoCallYet ==
    [pc |-> "idle", requestID |-> EmptyID, reg |-> NoReg, ctx |-> "-", runs |-> 0,
     completes |-> 0, result |-> NoResult, ret |-> NoResult]

WrapInit == wrapper = [o \in Ops |-> NoCallYet]

\* --------------------------------------------------- the liveness probe

\* What the host has under a pid: no process, a process the caller may signal
\* and open, or a process of another user or protection level
Pids == {1, 2, 3}
HostStates == {"absent", "own", "denied"}
Platforms == {"unix", "windows"}
Probes ==
    [platform : Platforms, host : [Pids -> HostStates], pid : Pids,
     called : BOOLEAN, result : BOOLEAN]

\* no call of isProcessAlive under observation
ProbeIdle ==
    probe = [platform |-> "unix", host |-> [p \in Pids |-> "absent"], pid |-> 1,
             called |-> FALSE, result |-> FALSE]

\* ----------------------------------------------------- audio playback

\* One tool call from the moment it holds the lock (defer release() is
\* armed) until it has returned: which tool, where the handler is, the
\* goroutine or process beside it, what the loudspeaker gets from the call,
\* its context, and who has the lock
Tools == {"say_tts", "elevenlabs_tts", "google_tts", "openai_tts"}
PlayPc == {"idle", "play", "select", "returned"}
BesidePc == {"none", "watching", "killed", "decode", "select", "exit"}
Audio == {"silent", "playing", "ended", "stopped"}
LockHolder == {"call", "free", "next"}
Plays ==
    [tool : Tools, pc : PlayPc, beside : BesidePc, audio : Audio,
     ctx : BOOLEAN, firedInPlayback : BOOLEAN, lock : LockHolder]

\* no playback under observation
PlayIdle ==
    play = [tool |-> "say_tts", pc |-> "idle", beside |-> "none", audio |-> "silent",
            ctx |-> FALSE, firedInPlayback |-> FALSE, lock |-> "free"]

\* --------------------------------------------------- the initial state

TypeOK ==
    /\ sequentialTTS \in [Procs -> BOOLEAN]
    /\ alive \in [Procs -> BOOLEAN]
    /\ ttsMutex \in [Procs -> Tasks \cup {NoTask}]
    /\ lockDir \in DirState
    /\ ctxDone \in [Tasks -> BOOLEAN]
    /\ pc \in [Tasks -> MainPc]
    /\ g1 \in [Tasks -> G1Pc]
    /\ g2 \in [Tasks -> G2Pc]
    /\ released \in [Tasks -> 0..2]
    /\ judged \in [Tasks -> Tasks \cup {NoTask}]
    /\ wrapper \in [Ops -> Call]
    /\ probe \in Probes
    /\ play \in Plays

Init ==
    /\ sequentialTTS = [p \in Procs |-> TRUE]
    /\ alive = [p \in Procs |-> TRUE]
    /\ ttsMutex = [p \in Procs |-> NoTask]
    /\ lockDir = NoDir
    /\ ctxDone = [t \in Tasks |-> FALSE]
    /\ pc = [t \in Tasks |-> "idle"]
    /\ g1 = [t \in Tasks |-> "none"]
    /\ g2 = [t \in Tasks |-> "none"]
    /\ released = [t \in Tasks |-> 0]
    /\ judged = [t \in Tasks |-> NoTask]
    /\ CMInit
    /\ WrapInit
    /\ ProbeIdle
    /\ PlayIdle

\* ------------------------------------------------- the handler goroutine

\* an acquireTTSLock without the sequentialTTS check
StartHandlerAlwaysLocks(t) ==
    /\ pc[t] = "idle"
    /\ Live(t)
    /\ IF ctxDone[t]
       THEN /\ pc' = [pc EXCEPT ![t] = "cancelledEarly"]
            /\ UNCHANGED g1
       ELSE /\ pc' = [pc EXCEPT ![t] = "selLocal"]
            /\ g1' = [g1 EXCEPT ![t] = "lock"]
    /\ UNCHANGED <<sequentialTTS, alive, ttsMutex, lockDir, ctxDone, g2, released, judged, cmVars, wrapper, probe, play>>

\* a handler that goes for the lock without looking at ctx.Done() first
StartHandlerNoEarlyCheck(t) ==
    /\ pc[t] = "idle"
    /\ Live(t)
    /\ IF ~sequentialTTS[ProcOf(t)]
       THEN /\ pc' = [pc EXCEPT ![t] = "holding"]
            /\ UNCHANGED g1
       ELSE /\ pc' = [pc EXCEPT ![t] = "selLocal"]
            /\ g1' = [g1 EXCEPT ![t] = "lock"]
    /\ UNCHANGED <<sequentialTTS, alive, ttsMutex, lockDir, ctxDone, g2, released, judged, cmVars, wrapper, probe, play>>

\* A tool handler is invoked: the early ctx.Done() check, then acquireTTSLock
\* up to its first select (the goroutine calling ttsMutex.Lock() is started).
StartHandler(t) ==
    /\ pc[t] = "idle"
    /\ Live(t)
    /\ IF ctxDone[t]
       THEN /\ pc' = [pc EXCEPT ![t] = "cancelledEarly"]
            /\ UNCHANGED g1
       ELSE IF ~sequentialTTS[ProcOf(t)]
            THEN /\ pc' = [pc EXCEPT ![t] = "holding"]
                 /\ UNCHANGED g1
            ELSE /\ pc' = [pc EXCEPT ![t] = "selLocal"]
                 /\ g1' = [g1 EXCEPT ![t] = "lock"]
    /\ UNCHANGED <<sequentialTTS, alive, ttsMutex, lockDir, ctxDone, g2, released, judged, cmVars, wrapper, probe, play>>

\* go func() { ttsMutex.Lock(); ... }: Lock returns once the mutex is free
LocalLock(t) ==
    /\ g1[t] = "lock"
    /\ Live(t)
    /\ ttsMutex[ProcOf(t)] = NoTask
    /\ ttsMutex' = [ttsMutex EXCEPT ![ProcOf(t)] = t]
    /\ g1' = [g1 EXCEPT ![t] = "locked"]
    /\ UNCHANGED <<sequentialTTS, alive, lockDir, ctxDone, pc, g2, released, judged, cmVars, wrapper, probe, play>>

\* ... close(acquired) }
LocalClose(t) ==
    /\ g1[t] = "locked"
    /\ Live(t)
    /\ g1' = [g1 EXCEPT ![t] = "closed"]
    /\ UNCHANGED <<sequentialTTS, alive, ttsMutex, lockDir, ctxDone, pc, g2, released, judged, cmVars, wrapper, probe, play>>

\* select case <-acquired: acquireGlobalTTSLock(ctx) is called and starts the
\* goroutine running lock.acquireLock(ctx)
SelectLocalAcquired(t) ==
    /\ pc[t] = "selLocal"
    /\ Live(t)
    /\ g1[t] = "closed"
    /\ pc' = [pc EXCEPT ![t] = "selGlobal"]
    /\ g2' = [g2 EXCEPT ![t] = "mkdir"]
    /\ UNCHANGED <<sequentialTTS, alive, ttsMutex, lockDir, ctxDone, g1, released, judged, cmVars, wrapper, probe, play>>

\* the ctx.Done() branch of acquireTTSLock that waits for the holder to release first
SelectLocalCancelledBlocking(t) ==
    /\ pc[t] = "selLocal"
    /\ Live(t)
    /\ ctxDone[t]
    /\ g1[t] = "closed"
    /\ ttsMutex' = [ttsMutex EXCEPT ![ProcOf(t)] = NoTask]
    /\ pc' = [pc EXCEPT ![t] = "failLocal"]
    /\ UNCHANGED <<sequentialTTS, alive, lockDir, ctxDone, g1, g2, released, judged, cmVars, wrapper, probe, play>>

\* select case <-ctx.Done(): the inner select unlocks only if acquired is
\* already closed; acquireTTSLock returns ctx.Err() and the handler returns
\* "Request cancelled while waiting for TTS"
SelectLocalCancelled(t) ==
    /\ pc[t] = "selLocal"
    /\ Live(t)
    /\ ctxDone[t]
    /\ ttsMutex' = IF g1[t] = "closed"
                   THEN [ttsMutex EXCEPT ![ProcOf(t)] = NoTask]
                   ELSE ttsMutex
    /\ pc' = [pc EXCEPT ![t] = "failLocal"]
    /\ UNCHANGED <<sequentialTTS, alive, lockDir, ctxDone, g1, g2, released, judged, cmVars, wrapper, probe, play>>

\* the failure path of acquireTTSLock that forgets ttsMutex.Unlock()
GlobalFailedNoUnlock(t, why) ==
    /\ pc' = [pc EXCEPT ![t] = why]
    /\ UNCHANGED ttsMutex

\* acquireGlobalTTSLock returned an error: ttsMutex.Unlock(), return nil, err;
\* the handler answers "Request cancelled while waiting for TTS"
GlobalFailed(t, why) ==
    /\ ttsMutex' = [ttsMutex EXCEPT ![ProcOf(t)] = NoTask]
    /\ pc' = [pc EXCEPT ![t] = why]

\* a select that hands every error of acquireLock on as the cancellation error
SelectGlobalResultAsCancelled(t) ==
    /\ pc[t] = "selGlobal"
    /\ Live(t)
    /\ g2[t] \in {"sentOk", "sentCtx", "sentFs"}
    /\ IF g2[t] = "sentOk"
       THEN /\ pc' = [pc EXCEPT ![t] = "holding"]
            /\ UNCHANGED ttsMutex
       ELSE GlobalFailed(t, "failLoop")
    /\ UNCHANGED <<sequentialTTS, alive, lockDir, ctxDone, g1, g2, released, judged, cmVars, wrapper, probe, play>>

\* acquireGlobalTTSLock: select case err := <-acquired
SelectGlobalResult(t) ==
    /\ pc[t] = "selGlobal"
    /\ Live(t)
    /\ g2[t] \in {"sentOk", "sentCtx", "sentFs"}
    /\ IF g2[t] = "sentOk"
       THEN /\ pc' = [pc EXCEPT ![t] = "holding"]
            /\ UNCHANGED ttsMutex
       ELSE GlobalFailed(t, IF g2[t] = "sentCtx" THEN "failLoop" ELSE "failFs")
    /\ UNCHANGED <<sequentialTTS, alive, lockDir, ctxDone, g1, g2, released, judged, cmVars, wrapper, probe, play>>

\* acquireGlobalTTSLock: select case <-ctx.Done(): return nil, ctx.Err();
\* the acquireLock goroutine keeps running
SelectGlobalCancelled(t) ==
    /\ pc[t] = "selGlobal"
    /\ Live(t)
    /\ ctxDone[t]
    /\ GlobalFailed(t, "failGlobal")
    /\ UNCHANGED <<sequentialTTS, alive, lockDir, ctxDone, g1, g2, released, judged, cmVars, wrapper, probe, play>>

\* a handler exit path that returns without running the release function
HandlerReturnNoDefer(t, o) ==
    /\ IF o = "error"
       THEN /\ pc' = [pc EXCEPT ![t] = "done"]
            /\ UNCHANGED released
       ELSE /\ released' = [released EXCEPT ![t] = @ + 1]
            /\ pc' = [pc EXCEPT ![t] = IF g1[t] = "none" THEN "done" ELSE "rel1"]

\* the handler returns with outcome o; "defer release()" invokes the release
\* function (a no-op when sequentialTTS is off)
HandlerReturn(t, o) ==
    /\ released' = [released EXCEPT ![t] = @ + 1]
    /\ pc' = [pc EXCEPT ![t] = IF g1[t] = "none" THEN "done" ELSE "rel1"]

\* the guarded operation: succeeds, fails (validation, backend) or is
\* cancelled mid-flight
Work(t) ==
    /\ pc[t] = "holding"
    /\ Live(t)
    /\ \E o \in Outcome :
          /\ o = "cancelled" => ctxDone[t]
          /\ HandlerReturn(t, o)
    /\ UNCHANGED <<sequentialTTS, alive, ttsMutex, lockDir, ctxDone, g1, g2, judged, cmVars, wrapper, probe, play>>

\* releaseLock: os.Remove(m.contentFile); removing an entry touches the
\* directory's modification time
ReleaseContent(t) ==
    /\ pc[t] = "rel1"
    /\ Live(t)
    /\ lockDir' = IF lockDir.rec \in {"corrupt", "valid"}
                  THEN [lockDir EXCEPT !.rec = "none", !.pid = NoPid, !.old = FALSE]
                  ELSE lockDir
    /\ pc' = [pc EXCEPT ![t] = "rel2"]
    /\ UNCHANGED <<sequentialTTS, alive, ttsMutex, ctxDone, g1, g2, released, judged, cmVars, wrapper, probe, play>>

\* releaseLock: os.Remove(m.lockDir) removes an empty directory; the error
\* (no directory, directory not empty) is only logged
ReleaseDir(t) ==
    /\ pc[t] = "rel2"
    /\ Live(t)
    /\ lockDir' = IF lockDir.rec = "none" THEN NoDir ELSE lockDir
    /\ pc' = [pc EXCEPT ![t] = "rel3"]
    /\ UNCHANGED <<sequentialTTS, alive, ttsMutex, ctxDone, g1, g2, released, judged, cmVars, wrapper, probe, play>>

\* the release function of acquireTTSLock: after globalRelease(), ttsMutex.Unlock()
ReleaseLocal(t) ==
    /\ pc[t] = "rel3"
    /\ Live(t)
    /\ ttsMutex' = [ttsMutex EXCEPT ![ProcOf(t)] = NoTask]
    /\ pc' = [pc EXCEPT ![t] = "done"]
    /\ UNCHANGED <<sequentialTTS, alive, lockDir, ctxDone, g1, g2, released, judged, cmVars, wrapper, probe, play>>

\* ------------------------------------------- ttsMutexFile.acquireLock

FsErrors == Cardinality({t \in Tasks : g2[t] = "sentFs"})

\* os.Mkdir(m.lockDir) succeeds: the path was free and this acquisition owns
\* the new directory
MkdirCreated(t) ==
    /\ g2[t] = "mkdir"
    /\ Live(t)
    /\ lockDir = NoDir
    /\ lockDir' = [owner |-> t, rec |-> "none", pid |-> NoPid, old |-> FALSE]
    /\ g2' = [g2 EXCEPT ![t] = "write"]
    /\ UNCHANGED <<sequentialTTS, alive, ttsMutex, ctxDone, pc, g1, released, judged, cmVars, wrapper, probe, play>>

\* os.Mkdir(m.lockDir) fails with "already exists": on to atomicCleanupStale
MkdirExists(t) ==
    /\ g2[t] = "mkdir"
    /\ Live(t)
    /\ lockDir # NoDir
    /\ g2' = [g2 EXCEPT ![t] = "stale"]
    /\ UNCHANGED <<sequentialTTS, alive, ttsMutex, lockDir, ctxDone, pc, g1, released, judged, cmVars, wrapper, probe, play>>

\* os.Mkdir(m.lockDir) fails with another error (permissions, disk full):
\* acquireLock returns it at once
MkdirError(t) ==
    /\ g2[t] = "mkdir"
    /\ Live(t)
    /\ FsErrors < MaxFsErrors
    /\ g2' = [g2 EXCEPT ![t] = "sentFs"]
    /\ UNCHANGED <<sequentialTTS, alive, ttsMutex, lockDir, ctxDone, pc, g1, released, judged, cmVars, wrapper, probe, play>>

\* os.WriteFile(m.contentFile, ...) with its error ignored, then return nil.
\* The write goes to whatever directory is at the path; it leaves the record
\* of this process (r = "valid"), nothing (r = "none") or a partial file
\* (r = "corrupt"). Creating the file touches the directory's modification time.
WriteRecord(t, r) ==
    /\ g2[t] = "write"
    /\ Live(t)
    /\ lockDir' = IF lockDir = NoDir \/ r = "none"
                  THEN lockDir
                  ELSE [lockDir EXCEPT !.rec = r,
                                       !.pid = IF r = "valid" THEN ProcOf(t) ELSE NoPid,
                                       !.old = IF lockDir.rec = "none" THEN FALSE ELSE @]
    /\ g2' = [g2 EXCEPT ![t] = "sentOk"]
    /\ UNCHANGED <<sequentialTTS, alive, ttsMutex, ctxDone, pc, g1, released, judged, cmVars, wrapper, probe, play>>

\* atomicCleanupStale: if !m.isStale() { return false }
CheckStale(t) ==
    /\ g2[t] = "stale"
    /\ Live(t)
    /\ g2' = [g2 EXCEPT ![t] = IF isStale(lockDir) THEN "rename" ELSE "wait"]
    /\ judged' = [judged EXCEPT ![t] = IF isStale(lockDir) THEN lockDir.owner ELSE NoTask]
    /\ UNCHANGED <<sequentialTTS, alive, ttsMutex, lockDir, ctxDone, pc, g1, released, cmVars, wrapper, probe, play>>

\* variant: a rename that finds the directory gone is treated as a success
RenameNonAtomic(t) ==
    /\ g2[t] = "rename"
    /\ Live(t)
    /\ lockDir' = NoDir
    /\ g2' = [g2 EXCEPT ![t] = "mkdir"]
    /\ judged' = [judged EXCEPT ![t] = NoTask]
    /\ UNCHANGED <<sequentialTTS, alive, ttsMutex, ctxDone, pc, g1, released, cmVars, wrapper, probe, play>>

\* atomicCleanupStale: os.Rename(m.lockDir, staleDir) takes whatever directory
\* is at the path now; on success os.RemoveAll(staleDir) and acquireLock
\* retries os.Mkdir at once, on failure it goes to the jittered wait
Rename(t) ==
    /\ g2[t] = "rename"
    /\ Live(t)
    /\ IF lockDir # NoDir
       THEN /\ lockDir' = NoDir
            /\ g2' = [g2 EXCEPT ![t] = "mkdir"]
       ELSE /\ g2' = [g2 EXCEPT ![t] = "wait"]
            /\ UNCHANGED lockDir
    /\ judged' = [judged EXCEPT ![t] = NoTask]
    /\ UNCHANGED <<sequentialTTS, alive, ttsMutex, ctxDone, pc, g1, released, cmVars, wrapper, probe, play>>

\* select case <-time.After(jitter): continue
WaitRetry(t) ==
    /\ g2[t] = "wait"
    /\ Live(t)
    /\ g2' = [g2 EXCEPT ![t] = "mkdir"]
    /\ UNCHANGED <<sequentialTTS, alive, ttsMutex, lockDir, ctxDone, pc, g1, released, judged, cmVars, wrapper, probe, play>>

\* select case <-ctx.Done(): return ctx.Err()
WaitCancelled(t) ==
    /\ g2[t] = "wait"
    /\ Live(t)
    /\ ctxDone[t]
    /\ g2' = [g2 EXCEPT ![t] = "sentCtx"]
    /\ UNCHANGED <<sequentialTTS, alive, ttsMutex, lockDir, ctxDone, pc, g1, released, judged, cmVars, wrapper, probe, play>>

\* ------------------------------------------------------ the environment

\* the request's context fires (cancellation notification, timeout)
Cancel(t) ==
    /\ ~ctxDone[t]
    /\ pc[t] \notin {"done", "dead"} \cup Failed
    /\ Cardinality({u \in Tasks : ctxDone[u]}) < MaxCancels
    /\ ctxDone' = [ctxDone EXCEPT ![t] = TRUE]
    /\ UNCHANGED <<sequentialTTS, alive, ttsMutex, lockDir, pc, g1, g2, released, judged, cmVars, wrapper, probe, play>>

\* a process is killed: its goroutines stop, nothing on disk is cleaned up
Crash(p) ==
    /\ alive[p]
    /\ Cardinality({q \in Procs : ~alive[q]}) < MaxCrashes
    /\ alive' = [alive EXCEPT ![p] = FALSE]
    /\ pc' = [t \in Tasks |-> IF ProcOf(t) = p THEN "dead" ELSE pc[t]]
    /\ g1' = [t \in Tasks |-> IF ProcOf(t) = p THEN "none" ELSE g1[t]]
    /\ g2' = [t \in Tasks |-> IF ProcOf(t) = p THEN "none" ELSE g2[t]]
    /\ ttsMutex' = [ttsMutex EXCEPT ![p] = NoTask]
    /\ judged' = [t \in Tasks |-> IF ProcOf(t) = p THEN NoTask ELSE judged[t]]
    /\ UNCHANGED <<sequentialTTS, lockDir, ctxDone, released, cmVars, wrapper, probe, play>>

\* time passes: the directory's modification time gets older than the grace period
Tick ==
    /\ lockDir # NoDir
    /\ ~lockDir.old
    /\ lockDir' = [lockDir EXCEPT !.old = TRUE]
    /\ UNCHANGED <<sequentialTTS, alive, ttsMutex, ctxDone, pc, g1, g2, released, judged, cmVars, wrapper, probe, play>>

\* ------------------------------------------------ the CancellationManager

\* len(cm.cancellable), which ActiveRequests() returns
ActiveRequests == Cardinality({key \in Keys : cancellable[key] # NoReg})

\* the capacity check that lets the map grow one past the maximum
AtCapacityOffByOne == ActiveRequests > maxRequests

\* len(cm.cancellable) >= cm.maxRequests
AtCapacity == ActiveRequests >= maxRequests

\* a Stop() that does nothing
StopNothing(rs, k) == rs

\* timer.Stop() on the timer of registration k: a running timer will not
\* fire; a timer that has fired is not affected (its callback still runs)
Stop(rs, k) ==
    IF k # NoReg /\ rs[k].timer = "running" THEN [rs EXCEPT ![k].timer = "stopped"] ELSE rs

\* cancelFunc() of registration k
Invoke(rs, k) == [rs EXCEPT ![k].invoked = @ + 1]

\* a rejection that makes room by dropping the entry of some registered id
RejectedEvicting(requestID) ==
    /\ \E key \in Keys :
          /\ cancellable[key] # NoReg
          /\ cancellable' = [cancellable EXCEPT ![key] = NoReg]
          /\ timeouts' = [timeouts EXCEPT ![key] = NoReg]
          /\ regs' = Stop(regs, timeouts[key])
    /\ last' = [op |-> "RegisterCancellable", id |-> requestID, ret |-> "ErrTooManyRequests"]
    /\ row' = 0

\* RegisterCancellable at capacity: return ErrTooManyRequests
Rejected(requestID) ==
    /\ last' = [op |-> "RegisterCancellable", id |-> requestID, ret |-> "ErrTooManyRequests"]
    /\ row' = 0
    /\ UNCHANGED <<cancellable, timeouts, regs>>

\* a registration that keeps the cancelFunc already stored for the id
StoreKeepingFirst(key, k) ==
    /\ cancellable' = [cancellable EXCEPT ![key] = IF @ = NoReg THEN k ELSE @]
    /\ timeouts' = [timeouts EXCEPT ![key] = k]

\* cm.cancellable[requestID] = cancelFunc; cm.timeouts[requestID] = timer
Store(key, k) ==
    /\ cancellable' = [cancellable EXCEPT ![key] = k]
    /\ timeouts' = [timeouts EXCEPT ![key] = k]

\* RegisterCancellable(requestID, cancelFunc), under cm.mu: the capacity
\* check, the truncation of the id, Stop() of the timer already stored for
\* the id, then the new cancelFunc and the new timer (time.AfterFunc)
RegisterCancellable(requestID) ==
    /\ IF AtCapacity
       THEN Rejected(requestID)
       ELSE LET key == Truncate(requestID)
                k == Len(regs) + 1
            IN  /\ k <= MaxRegistrations
                /\ regs' = Append(Stop(regs, timeouts[key]),
                                  [id |-> key, timer |-> "running", invoked |-> 0])
                /\ Store(key, k)
                /\ row' = IF last.op = "RegisterCancellable" /\ last.ret = "nil"
                             /\ last.id = requestID
                          THEN row + 1 ELSE 1
                /\ last' = [op |-> "RegisterCancellable", id |-> requestID, ret |-> "nil"]
    /\ UNCHANGED vars

\* a cleanup that deletes the entry and leaves its timer in cm.timeouts
cleanupLockedLeavesTimer(rs, requestID) ==
    IF requestID \in Keys
    THEN /\ cancellable' = [cancellable EXCEPT ![requestID] = NoReg]
         /\ regs' = rs
         /\ UNCHANGED timeouts
    ELSE /\ regs' = rs
         /\ UNCHANGED <<cancellable, timeouts>>

\* cleanupLocked(requestID) applied after the registrations became rs:
\* delete(cm.cancellable, requestID); Stop() and delete the timer if one is stored
cleanupLocked(rs, requestID) ==
    IF requestID \in Keys
    THEN /\ cancellable' = [cancellable EXCEPT ![requestID] = NoReg]
         /\ timeouts' = [timeouts EXCEPT ![requestID] = NoReg]
         /\ regs' = Stop(rs, timeouts[requestID])
    ELSE /\ regs' = rs
         /\ UNCHANGED <<cancellable, timeouts>>

\* the lookup cm.cancellable[requestID]
Exists(requestID) == requestID \in Keys /\ cancellable[requestID] # NoReg

\* a Cancel that reports success for an id it does not know
CancelAlwaysTrue(requestID) ==
    /\ IF requestID # EmptyID /\ Exists(requestID)
       THEN cleanupLocked(Invoke(regs, cancellable[requestID]), requestID)
       ELSE UNCHANGED <<cancellable, timeouts, regs>>
    /\ last' = [op |-> "Cancel", id |-> requestID, ret |-> "true"]
    /\ row' = 0
    /\ UNCHANGED vars

\* a Cancel that removes the entry without calling cancelFunc
CancelWithoutInvoke(requestID) ==
    /\ IF requestID # EmptyID /\ Exists(requestID)
       THEN /\ cleanupLocked(regs, requestID)
            /\ last' = [op |-> "Cancel", id |-> requestID, ret |-> "true"]
       ELSE /\ last' = [op |-> "Cancel", id |-> requestID, ret |-> "false"]
            /\ UNCHANGED <<cancellable, timeouts, regs>>
    /\ row' = 0
    /\ UNCHANGED vars

\* a Cancel that also stops the timer of every other registration
CancelStoppingAll(requestID) ==
    /\ IF requestID # EmptyID /\ Exists(requestID)
       THEN /\ cancellable' = [cancellable EXCEPT ![requestID] = NoReg]
            /\ timeouts' = [timeouts EXCEPT ![requestID] = NoReg]
            /\ regs' = [k \in DOMAIN regs |->
                          [regs[k] EXCEPT !.timer = IF @ = "running" THEN "stopped" ELSE @,
                                          !.invoked = IF k = cancellable[requestID] THEN @ + 1 ELSE @]]
            /\ last' = [op |-> "Cancel", id |-> requestID, ret |-> "true"]
       ELSE /\ last' = [op |-> "Cancel", id |-> requestID, ret |-> "false"]
            /\ UNCHANGED <<cancellable, timeouts, regs>>
    /\ row' = 0
    /\ UNCHANGED vars

\* a Cancel that calls cancelFunc and leaves the entry in the maps
CancelKeepingEntry(requestID) ==
    /\ IF requestID # EmptyID /\ Exists(requestID)
       THEN /\ regs' = Invoke(regs, cancellable[requestID])
            /\ last' = [op |-> "Cancel", id |-> requestID, ret |-> "true"]
            /\ UNCHANGED <<cancellable, timeouts>>
       ELSE /\ last' = [op |-> "Cancel", id |-> requestID, ret |-> "false"]
            /\ UNCHANGED <<cancellable, timeouts, regs>>
    /\ row' = 0
    /\ UNCHANGED vars

\* Cancel(requestID, reason), under cm.mu: false for the empty id and for an
\* id without entry; else cancelFunc(), cleanupLocked(requestID), true
CMCancel(requestID) ==
    /\ IF requestID # EmptyID /\ Exists(requestID)
       THEN /\ cleanupLocked(Invoke(regs, cancellable[requestID]), requestID)
            /\ last' = [op |-> "Cancel", id |-> requestID, ret |-> "true"]
       ELSE /\ last' = [op |-> "Cancel", id |-> requestID, ret |-> "false"]
            /\ UNCHANGED <<cancellable, timeouts, regs>>
    /\ row' = 0
    /\ UNCHANGED vars

\* a Complete that cancels the request it completes
CompleteInvoking(requestID) ==
    /\ cleanupLocked(IF Exists(requestID) THEN Invoke(regs, cancellable[requestID]) ELSE regs,
                     requestID)
    /\ last' = [op |-> "Complete", id |-> requestID, ret |-> "-"]
    /\ row' = 0
    /\ UNCHANGED vars

\* Complete(requestID), under cm.mu: cleanupLocked(requestID)
Complete(requestID) ==
    /\ cleanupLocked(regs, requestID)
    /\ last' = [op |-> "Complete", id |-> requestID, ret |-> "-"]
    /\ row' = 0
    /\ UNCHANGED vars

\* registrations whose timer, resp. cancelFunc, Shutdown reaches by ranging over cm.timeouts
ShutdownStops == {timeouts[key] : key \in {x \in Keys : timeouts[x] # NoReg}}
ShutdownInvokes ==
    {cancellable[key] : key \in {x \in Keys : timeouts[x] # NoReg /\ cancellable[x] # NoReg}}

\* a Shutdown that only replaces the two maps
ShutdownDroppingMaps ==
    /\ cancellable' = [key \in Keys |-> NoReg]
    /\ timeouts' = [key \in Keys |-> NoReg]
    /\ last' = [op |-> "Shutdown", id |-> EmptyID, ret |-> "-"]
    /\ row' = 0
    /\ UNCHANGED regs
    /\ UNCHANGED vars

\* Shutdown(), under cm.mu: Stop() every stored timer, call the cancelFunc
\* stored under the same id, then replace both maps by empty ones
Shutdown ==
    /\ regs' = [k \in DOMAIN regs |->
                  [id |-> regs[k].id,
                   timer |-> IF k \in ShutdownStops /\ regs[k].timer = "running"
                             THEN "stopped" ELSE regs[k].timer,
                   invoked |-> IF k \in ShutdownInvokes
                               THEN regs[k].invoked + 1 ELSE regs[k].invoked]]
    /\ cancellable' = [key \in Keys |-> NoReg]
    /\ timeouts' = [key \in Keys |-> NoReg]
    /\ last' = [op |-> "Shutdown", id |-> EmptyID, ret |-> "-"]
    /\ row' = 0
    /\ UNCHANGED vars

\* DefaultCleanupTimeout has passed for the timer of registration k: the
\* runtime starts the goroutine of its callback
TimerFire(k) ==
    /\ k \in DOMAIN regs
    /\ regs[k].timer = "running"
    /\ Cardinality({j \in DOMAIN regs : regs[j].timer \in {"fired", "done"}}) < MaxExpiries
    /\ regs' = [regs EXCEPT ![k].timer = "fired"]
    /\ last' = [op |-> "timer", id |-> EmptyID, ret |-> "-"]
    /\ row' = 0
    /\ UNCHANGED <<cancellable, timeouts>>
    /\ UNCHANGED vars

\* a callback that cancels the request it expires
TimerCallbackCancelling(k) ==
    /\ k \in DOMAIN regs
    /\ regs[k].timer = "fired"
    /\ cleanupLocked(IF Exists(regs[k].id)
                     THEN Invoke([regs EXCEPT ![k].timer = "done"], cancellable[regs[k].id])
                     ELSE [regs EXCEPT ![k].timer = "done"],
                     regs[k].id)
    /\ last' = [op |-> "timer", id |-> EmptyID, ret |-> "-"]
    /\ row' = 0
    /\ UNCHANGED vars

\* the callback of timer k gets cm.mu: cm.cleanup(requestID) with the id the
\* registration closed over
TimerCallback(k) ==
    /\ k \in DOMAIN regs
    /\ regs[k].timer = "fired"
    /\ cleanupLocked([regs EXCEPT ![k].timer = "done"], regs[k].id)
    /\ last' = [op |-> "timer", id |-> EmptyID, ret |-> "-"]
    /\ row' = 0
    /\ UNCHANGED vars

\* the manager as the wrapper and the notification handler drive it
CMNext ==
    \/ \E requestID \in SanitizedIDs :
          \/ RegisterCancellable(requestID) /\ UNCHANGED <<wrapper, probe, play>>
          \/ CMCancel(requestID) /\ UNCHANGED <<wrapper, probe, play>>
          \/ Complete(requestID) /\ UNCHANGED <<wrapper, probe, play>>
    \/ Shutdown /\ UNCHANGED <<wrapper, probe, play>>
    \/ \E k \in 1..MaxRegistrations :
          \/ TimerFire(k) /\ UNCHANGED <<wrapper, probe, play>>
          \/ TimerCallback(k) /\ UNCHANGED <<wrapper, probe, play>>

\* ---------------------------------------------------- the specifications

HandlerStep(t) ==
    \/ StartHandler(t)
    \/ SelectLocalAcquired(t)
    \/ SelectLocalCancelled(t)
    \/ SelectGlobalResult(t)
    \/ SelectGlobalCancelled(t)
    \/ ReleaseContent(t)
    \/ ReleaseDir(t)
    \/ ReleaseLocal(t)

LocalStep(t) == LocalLock(t) \/ LocalClose(t)

\* acquireLock when the filesystem does what it is asked
AcquireLockStep(t) ==
    \/ MkdirCreated(t)
    \/ MkdirExists(t)
    \/ WriteRecord(t, "valid")
    \/ CheckStale(t)
    \/ Rename(t)
    \/ WaitRetry(t)
    \/ WaitCancelled(t)

\* the failures acquireLock meets: os.Mkdir error, record not or partly written
AcquireLockFault(t) ==
    \/ MkdirError(t)
    \/ WriteRecord(t, "none")
    \/ WriteRecord(t, "corrupt")

\* handlers, their goroutines and cancellation; no crash, no filesystem
\* failure, no lock older than the grace period
NoFaultNext ==
    \E t \in Tasks : HandlerStep(t) \/ Work(t) \/ LocalStep(t) \/ AcquireLockStep(t) \/ Cancel(t)

Next ==
    \/ NoFaultNext
    \/ \E t \in Tasks : AcquireLockFault(t)
    \/ \E p \in Procs : Crash(p)
    \/ Tick

Spec == Init /\ [][Next]_vars

NoFaultSpec == Init /\ [][NoFaultNext]_vars

\* Every goroutine that can run is scheduled; the guarded operation itself
\* (Work), cancellation, crashes and the passing of the grace period are not forced.
Fairness ==
    \A t \in Tasks :
        /\ WF_vars(HandlerStep(t))
        /\ WF_vars(LocalStep(t))
        /\ WF_vars(AcquireLockStep(t))

FairSpec == Init /\ [][Next]_vars /\ Fairness

NoFaultFairSpec == Init /\ [][NoFaultNext]_vars /\ Fairness

\* the processes as started: --sequential-tts / MCP_TTS_ALLOW_CONCURRENT
\* decide sequentialTTS of each process before any handler runs
InitConfig ==
    /\ sequentialTTS \in [Procs -> BOOLEAN]
    /\ alive = [p \in Procs |-> TRUE]
    /\ ttsMutex = [p \in Procs |-> NoTask]
    /\ lockDir = NoDir
    /\ ctxDone = [t \in Tasks |-> FALSE]
    /\ pc = [t \in Tasks |-> "idle"]
    /\ g1 = [t \in Tasks |-> "none"]
    /\ g2 = [t \in Tasks |-> "none"]
    /\ released = [t \in Tasks |-> 0]
    /\ judged = [t \in Tasks |-> NoTask]
    /\ CMInit
    /\ WrapInit
    /\ ProbeIdle
    /\ PlayIdle

ConfigSpec == InitConfig /\ [][Next]_vars

\* the CancellationManager alone, no handler running
CMSpec == Init /\ [][CMNext]_cmVars

\* ------------------------------------------------------- WithCancellation

\* The request ids of the wrapped calls: two, so that a call can come with
\* an id that is registered already or with a fresh one
WrapIDs == {id \in SanitizedIDs : id.name \in {1, 2}}

\* WithCancellation up to the call of the handler (calls are numbered in the
\* order they get here): requestID from
\* extractOrGenerateRequestID, context.WithCancel, defer cancel(), then
\* RegisterCancellable(requestID, cancel); on an error the handler is called
\* with the original ctx, else Complete is deferred and the handler is called
\* with cancellableCtx
WithCancellation(o, requestID) ==
    /\ wrapper[o].pc = "idle"
    /\ \A u \in Ops : u < o => wrapper[u].pc # "idle"
    /\ RegisterCancellable(requestID)
    /\ wrapper' = [wrapper EXCEPT ![o] =
                      IF last'.ret = "nil"
                      THEN [@ EXCEPT !.pc = "handler", !.requestID = requestID,
                                     !.reg = Len(regs'), !.ctx = "cancellableCtx",
                                     !.runs = @ + 1]
                      ELSE [@ EXCEPT !.pc = "fallback", !.requestID = requestID,
                                     !.ctx = "ctx", !.runs = @ + 1]]
    /\ UNCHANGED <<probe, play>>

\* what the call keeps once it has returned value out
Returned(call, out) ==
    [call EXCEPT !.pc = "returned", !.result = out, !.ret = out, !.requestID = EmptyID]

\* a wrapper that defers Complete before it registers, so that the fallback
\* path runs it as well
HandlerReturnsCompleting(o, out) ==
    /\ wrapper[o].pc \in {"handler", "fallback"}
    /\ Complete(wrapper[o].requestID)
    /\ wrapper' = [wrapper EXCEPT ![o] = [Returned(@, out) EXCEPT !.completes = @ + 1]]
    /\ UNCHANGED <<probe, play>>

\* a wrapper that never defers Complete
HandlerReturnsWithoutComplete(o, out) ==
    /\ wrapper[o].pc \in {"handler", "fallback"}
    /\ wrapper' = [wrapper EXCEPT ![o] = Returned(@, out)]
    /\ UNCHANGED <<vars, cmVars, probe, play>>

\* The handler returns (a result, an error, or the result of a cancelled
\* run) and the deferred calls run in reverse order: Complete(requestID) if it
\* was deferred, then cancel() on a context nobody waits on any more; the
\* wrapper returns what the handler returned.
HandlerReturns(o, out) ==
    /\ wrapper[o].pc \in {"handler", "fallback"}
    /\ IF wrapper[o].pc = "handler"
       THEN /\ Complete(wrapper[o].requestID)
            /\ wrapper' = [wrapper EXCEPT ![o] = [Returned(@, out) EXCEPT !.completes = @ + 1]]
       ELSE /\ wrapper' = [wrapper EXCEPT ![o] = Returned(@, out)]
            /\ UNCHANGED <<vars, cmVars>>
    /\ UNCHANGED <<probe, play>>

\* CancelRequest(requestID, reason), and HandleCancellationNotification with
\* the sanitized id of the notification
CancelRequest(requestID) ==
    /\ CMCancel(requestID)
    /\ UNCHANGED <<wrapper, probe, play>>

WrapStep(o) ==
    \/ \E requestID \in WrapIDs : WithCancellation(o, requestID)
    \/ \E out \in Outcome : HandlerReturns(o, out)

\* wrapped tool calls, cancellation notifications, timers and Shutdown
WrapNext ==
    \/ \E o \in Ops : WrapStep(o)
    \/ \E requestID \in WrapIDs : CancelRequest(requestID)
    \/ Shutdown /\ UNCHANGED <<wrapper, probe, play>>
    \/ \E k \in 1..MaxRegistrations :
          \/ TimerFire(k) /\ UNCHANGED <<wrapper, probe, play>>
          \/ TimerCallback(k) /\ UNCHANGED <<wrapper, probe, play>>

WrapSpec == Init /\ [][WrapNext]_<<cmVars, wrapper>>

\* --------------------------------------------------- isProcessAlive alone

\* process.Signal(syscall.Signal(0)) after os.FindProcess, which never fails
\* on Unix: kill(pid, 0) succeeds, or fails with EPERM (the process exists,
\* the caller may not signal it) or ESRCH (no such process)
Signal0(host, pid) ==
    CASE host[pid] = "own" -> "nil"
      [] host[pid] = "denied" -> "EPERM"
      [] host[pid] = "absent" -> "ESRCH"

\* isProcessAlive of process_unix.go
isProcessAliveUnix(host, pid) ==
    LET err == Signal0(host, pid)
    IN  IF err = "nil" THEN TRUE ELSE IF err = "EPERM" THEN TRUE ELSE FALSE

\* windows.OpenProcess(PROCESS_QUERY_LIMITED_INFORMATION, false, pid): a
\* handle, or an error: ERROR_ACCESS_DENIED for a process the caller may not
\* open, ERROR_INVALID_PARAMETER when no process has the pid
OpenProcess(host, pid) ==
    CASE host[pid] = "own" -> "handle"
      [] host[pid] = "denied" -> "ERROR_ACCESS_DENIED"
      [] host[pid] = "absent" -> "ERROR_INVALID_PARAMETER"

\* isProcessAlive of process_windows.go: if err != nil { return false }
isProcessAliveWindows(host, pid) ==
    LET r == OpenProcess(host, pid)
    IN  IF r # "handle" THEN FALSE ELSE TRUE

\* the build for a Unix host answers the call
ProbeUnix ==
    /\ probe.platform = "unix"
    /\ ~probe.called
    /\ probe' = [probe EXCEPT !.called = TRUE,
                              !.result = isProcessAliveUnix(probe.host, probe.pid)]
    /\ UNCHANGED <<vars, cmVars, wrapper, play>>

\* the build for Windows answers the call
ProbeWindows ==
    /\ probe.platform = "windows"
    /\ ~probe.called
    /\ probe' = [probe EXCEPT !.called = TRUE,
                              !.result = isProcessAliveWindows(probe.host, probe.pid)]
    /\ UNCHANGED <<vars, cmVars, wrapper, play>>

ProbeNext == ProbeUnix \/ ProbeWindows

\* a call of isProcessAlive(pid) on either platform, for every pid and
\* every population of the host
ProbeInit ==
    /\ sequentialTTS = [p \in Procs |-> TRUE]
    /\ alive = [p \in Procs |-> TRUE]
    /\ ttsMutex = [p \in Procs |-> NoTask]
    /\ lockDir = NoDir
    /\ ctxDone = [t \in Tasks |-> FALSE]
    /\ pc = [t \in Tasks |-> "idle"]
    /\ g1 = [t \in Tasks |-> "none"]
    /\ g2 = [t \in Tasks |-> "none"]
    /\ released = [t \in Tasks |-> 0]
    /\ judged = [t \in Tasks |-> NoTask]
    /\ CMInit
    /\ WrapInit
    /\ probe \in {pr \in Probes : ~pr.called /\ ~pr.result}
    /\ PlayIdle

ProbeSpec == ProbeInit /\ [][ProbeNext]_probe


\* ---------------------------------------------------------------- the
\* manager called directly with any id string: the empty one, one within the
\* truncation bound and one beyond it
RawIDs == {id \in AllIDs : id.name \in {EmptyName, 1}}

RawNext ==
    \/ \E requestID \in RawIDs :
          \/ RegisterCancellable(requestID) /\ UNCHANGED <<wrapper, probe, play>>
          \/ CMCancel(requestID) /\ UNCHANGED <<wrapper, probe, play>>
          \/ Complete(requestID) /\ UNCHANGED <<wrapper, probe, play>>
    \/ Shutdown /\ UNCHANGED <<wrapper, probe, play>>
    \/ \E k \in 1..MaxRegistrations :
          \/ TimerFire(k) /\ UNCHANGED <<wrapper, probe, play>>
          \/ TimerCallback(k) /\ UNCHANGED <<wrapper, probe, play>>

RawSpec == Init /\ [][RawNext]_cmVars

\* ---------------------------------------------------------------- the
\* playback phase of the four tool handlers

\* what the rest of the model keeps while a playback is observed
PlayFrame == UNCHANGED <<vars, cmVars, wrapper, probe>>

\* the handler returns; the deferred release() frees the composed lock
Return(p) == [p EXCEPT !.pc = "returned", !.lock = "free"]

\* speaker.Clear(): nothing of what was queued reaches the loudspeaker any more
Clear(p) == [p EXCEPT !.audio = IF @ = "playing" THEN "stopped" ELSE @]

\* the token of the call fires (Cancel, Shutdown, the client going away)
CtxDone ==
    /\ play.pc \in {"play", "select"}
    /\ ~play.ctx
    /\ play' = [play EXCEPT !.ctx = TRUE, !.firedInPlayback = (play.audio = "playing")]
    /\ PlayFrame

\* say_tts: exec.CommandContext(ctx, "/usr/bin/say", ...).Start(), which
\* fails on a context already done and otherwise starts the process and the
\* goroutine of os/exec that watches ctx; then go func() { done <- sayCmd.Wait() }()
SayStart ==
    /\ play.tool = "say_tts"
    /\ play.pc = "play"
    /\ play' = IF play.ctx
               THEN Return(play)
               ELSE [play EXCEPT !.pc = "select", !.beside = "watching", !.audio = "playing"]
    /\ PlayFrame

\* the output comes to its end by itself: /usr/bin/say exits, or the
\* streamer is drained and beep.Callback sends on done
PlaybackEnds ==
    /\ play.audio = "playing"
    /\ play' = [play EXCEPT !.audio = "ended"]
    /\ PlayFrame

\* the watching goroutine of os/exec sees ctx.Done() and kills the process
CommandContextKill ==
    /\ play.tool = "say_tts"
    /\ play.beside = "watching"
    /\ play.ctx
    /\ play' = [Clear(play) EXCEPT !.beside = "killed"]
    /\ PlayFrame

\* say_tts, select case err := <-done: the process is gone, return
SaySelectDone ==
    /\ play.tool = "say_tts"
    /\ play.pc = "select"
    /\ play.audio \in {"ended", "stopped"}
    /\ play' = Return(play)
    /\ PlayFrame

\* say_tts, select case <-ctx.Done(): return ("The CommandContext will
\* handle killing the process")
SaySelectCancelled ==
    /\ play.tool = "say_tts"
    /\ play.pc = "select"
    /\ play.ctx
    /\ play' = Return(play)
    /\ PlayFrame

\* google_tts and openai_tts: speaker.Init, speaker.Play in the handler
SpeakerPlay ==
    /\ play.tool \in {"google_tts", "openai_tts"}
    /\ play.pc = "play"
    /\ play' = [play EXCEPT !.pc = "select", !.audio = "playing"]
    /\ PlayFrame

\* google_tts and openai_tts, select case <-done: return
SelectDone ==
    /\ play.tool \in {"google_tts", "openai_tts"}
    /\ play.pc = "select"
    /\ play.audio = "ended"
    /\ play' = Return(play)
    /\ PlayFrame

\* google_tts and openai_tts, select case <-ctx.Done(): speaker.Clear(), return
SelectCancelled ==
    /\ play.tool \in {"google_tts", "openai_tts"}
    /\ play.pc = "select"
    /\ play.ctx
    /\ play' = Return(Clear(play))
    /\ PlayFrame

\* elevenlabs_tts: the handler starts the playback goroutine with g.Go and
\* goes to its own select
ElevenLabsGo ==
    /\ play.tool = "elevenlabs_tts"
    /\ play.pc = "play"
    /\ play' = [play EXCEPT !.pc = "select", !.beside = "decode"]
    /\ PlayFrame

\* the playback goroutine: mp3.Decode fails and it sends the error on
\* audioComplete, or it goes on to speaker.Init and speaker.Play
ElevenLabsDecode ==
    /\ play.tool = "elevenlabs_tts"
    /\ play.beside = "decode"
    /\ \/ play' = [play EXCEPT !.beside = "exit"]
       \/ play' = [play EXCEPT !.beside = "select", !.audio = "playing"]
    /\ PlayFrame

\* the playback goroutine, select case <-done: audioComplete <- nil
ElevenLabsPlayerDone ==
    /\ play.tool = "elevenlabs_tts"
    /\ play.beside = "select"
    /\ play.audio = "ended"
    /\ play' = [play EXCEPT !.beside = "exit"]
    /\ PlayFrame

\* the playback goroutine, select case <-ctx.Done(): speaker.Clear(),
\* audioComplete <- ctx.Err()
ElevenLabsPlayerCancelled ==
    /\ play.tool = "elevenlabs_tts"
    /\ play.beside = "select"
    /\ play.ctx
    /\ play' = [Clear(play) EXCEPT !.beside = "exit"]
    /\ PlayFrame

\* elevenlabs_tts handler, select case err := <-audioComplete: return (an
\* error, the cancelled result, or after g.Wait() the normal one)
ElevenLabsSelectComplete ==
    /\ play.tool = "elevenlabs_tts"
    /\ play.pc = "select"
    /\ play.beside = "exit"
    /\ play' = Return(play)
    /\ PlayFrame

\* elevenlabs_tts handler, select case <-ctx.Done(): speaker.Clear(), return
ElevenLabsSelectCancelled ==
    /\ play.tool = "elevenlabs_tts"
    /\ play.pc = "select"
    /\ play.ctx
    /\ play' = Return(Clear(play))
    /\ PlayFrame

\* the next operation in line gets the lock the call released
NextAcquires ==
    /\ play.lock = "free"
    /\ play.pc = "returned"
    /\ play' = [play EXCEPT !.lock = "next"]
    /\ PlayFrame

PlayNext ==
    \/ CtxDone
    \/ SayStart
    \/ PlaybackEnds
    \/ CommandContextKill
    \/ SaySelectDone
    \/ SaySelectCancelled
    \/ SpeakerPlay
    \/ SelectDone
    \/ SelectCancelled
    \/ ElevenLabsGo
    \/ ElevenLabsDecode
    \/ ElevenLabsPlayerDone
    \/ ElevenLabsPlayerCancelled
    \/ ElevenLabsSelectComplete
    \/ ElevenLabsSelectCancelled
    \/ NextAcquires

\* any of the four tools, holding the lock and about to start its output
PlayInit ==
    /\ sequentialTTS = [p \in Procs |-> TRUE]
    /\ alive = [p \in Procs |-> TRUE]
    /\ ttsMutex = [p \in Procs |-> NoTask]
    /\ lockDir = NoDir
    /\ ctxDone = [t \in Tasks |-> FALSE]
    /\ pc = [t \in Tasks |-> "idle"]
    /\ g1 = [t \in Tasks |-> "none"]
    /\ g2 = [t \in Tasks |-> "none"]
    /\ released = [t \in Tasks |-> 0]
    /\ judged = [t \in Tasks |-> NoTask]
    /\ CMInit
    /\ WrapInit
    /\ ProbeIdle
    /\ play \in {p \in Plays : /\ p.pc = "play" /\ p.beside = "none" /\ p.audio = "silent"
                               /\ ~p.ctx /\ ~p.firedInPlayback /\ p.lock = "call"}

PlaySpec == PlayInit /\ [][PlayNext]_play
\* ---------------------------------------------------------------- the
\* lock with cancellation arriving only at a handler that waits behind a holder

\* handler t waits in acquireTTSLock while another handler holds the lock:
\* its goroutine is blocked in ttsMutex.Lock(), or loops in acquireLock on
\* the directory of the holder
BlockedBehind(t) ==
    \E u \in Tasks \ {t} :
        /\ pc[u] = "holding"
        /\ \/ pc[t] = "selLocal" /\ g1[t] = "lock" /\ ttsMutex[ProcOf(t)] = u
           \/ pc[t] = "selGlobal" /\ lockDir.owner = u /\ g2[t] \in {"mkdir", "stale", "wait"}

\* Cancel(id) for the operation of handler t, issued while t is blocked
CancelWhileBlocked(t) == BlockedBehind(t) /\ Cancel(t)

BlockedNext ==
    \E t \in Tasks :
        HandlerStep(t) \/ Work(t) \/ LocalStep(t) \/ AcquireLockStep(t) \/ CancelWhileBlocked(t)

BlockedSpec == Init /\ [][BlockedNext]_vars

\* ------------------------------------------------------------ the claims

\* tasks between a successful acquireTTSLock return and the invocation of release
Holders == {t \in Tasks : pc[t] = "holding"}

\* C1: with sequential execution enabled, at most one task at a time is
\* between a successful return of acquireTTSLock and the invocation of its
\* release function, over all processes and interleavings.
C1_MutualExclusion == Cardinality(Holders) <= 1

\* goroutines still inside the retry loop of acquireLock
InLoop == {"mkdir", "stale", "rename", "wait"}
Competing(w) == \E u \in Tasks \ {w} : g2[u] \in InLoop \cup {"write"}
DeadRecord == lockDir.rec = "valid" /\ ~alive[lockDir.pid]

\* C2: once the lock directory carries a parseable record of a dead pid, a
\* waiter in the loop of acquireLock creates the lock directory itself,
\* without the directory having to age, unless another acquirer competes, its
\* token fires, os.Mkdir fails or its process dies.
C2_CrashRecovery ==
    \A w \in Tasks :
        (DeadRecord /\ g2[w] \in InLoop /\ ~Competing(w))
            ~> (\/ g2[w] \in {"write", "sentOk"}
                \/ Competing(w)
                \/ ctxDone[w]
                \/ g2[w] = "sentFs"
                \/ ~Live(w))

\* a waiter has judged stale a directory younger than the grace period whose record names a dead pid
C2_Witness ==
    \E w \in Tasks : g2[w] = "rename" /\ DeadRecord /\ ~lockDir.old

\* C3: when the record parses and its pid is alive, the waiter evaluating
\* isStale goes to the jittered wait and never to the rename, whatever the age.
C3_AliveNeverStale ==
    [][\A t \in Tasks :
          (g2[t] = "stale" /\ g2'[t] \notin {"stale", "none"}
             /\ lockDir.rec = "valid" /\ alive[lockDir.pid])
          => g2'[t] = "wait"]_vars

\* a waiter backs off from a directory older than the grace period whose recorded pid is alive
C3_Witness ==
    \E t \in Tasks : g2[t] = "wait" /\ lockDir.rec = "valid" /\ alive[lockDir.pid] /\ lockDir.old

\* C4: while the directory exists with a missing or unparseable record and
\* is younger than the grace period, no waiter's rename takes it and no
\* waiter's os.Mkdir succeeds.
C4_ConservativeFallback ==
    [][(lockDir.rec \in {"none", "corrupt"} /\ ~lockDir.old)
          => \A t \in Tasks :
                /\ ~(g2[t] = "rename" /\ g2'[t] = "mkdir")
                /\ ~(g2[t] = "mkdir" /\ g2'[t] = "write")]_vars

\* C5: an acquisition for which acquireGlobalTTSLock returned the token's
\* cancellation error has not created the lock directory and never does.
C5_CancelledTakesNoLock ==
    \A t \in Tasks : pc[t] \in {"failGlobal", "failLoop"} => g2[t] \notin {"write", "sentOk"}

\* C6: after acquireTTSLock returned a cancellation error, ttsMutex is not
\* held by the goroutine of that acquisition.
C6_CancelledLeavesMutex ==
    \A t \in Tasks : pc[t] \in {"failLocal", "failGlobal", "failLoop"} => ttsMutex[ProcOf(t)] # t

\* C7: a handler waiting in the select of acquireTTSLock whose token has
\* fired while another task holds ttsMutex returns the cancellation error,
\* unless its own goroutine obtains the mutex meanwhile or its process dies.
C7_LocalCancellable ==
    \A t \in Tasks :
        (pc[t] = "selLocal" /\ ctxDone[t] /\ g1[t] = "lock" /\ ttsMutex[ProcOf(t)] # NoTask)
            ~> (pc[t] = "failLocal" \/ g1[t] # "lock" \/ ~Live(t))

\* a handler returned the cancellation error while another task still holds both locks
C7_Witness ==
    \E t \in Tasks : \E h \in Tasks :
        /\ pc[t] = "failLocal" /\ g1[t] = "lock"
        /\ ProcOf(h) = ProcOf(t) /\ pc[h] = "holding" /\ ttsMutex[ProcOf(t)] = h

\* C8: every handler that got the lock invokes the release function exactly
\* once on its way out; before it returns the function has not run, and a
\* handler that never got the lock never runs it.
C8_ReleasedOnce ==
    \A t \in Tasks :
        /\ pc[t] \in {"rel1", "rel2", "rel3", "done"} => released[t] = 1
        /\ pc[t] \in {"idle", "selLocal", "selGlobal", "holding"} \cup Failed => released[t] = 0
        /\ pc[t] = "done" => ttsMutex[ProcOf(t)] # t

\* a handler cancelled mid-flight has returned and released
C8_Witness ==
    \E t \in Tasks : pc[t] = "done" /\ ctxDone[t] /\ released[t] = 1

GlobalFailures == {"failGlobal", "failLoop", "failFs"}

\* C9: when acquireGlobalTTSLock fails after ttsMutex was obtained,
\* acquireTTSLock returns with ttsMutex unlocked, and the mutex is never again
\* held for that acquisition.
C9_FailureUnlocksLocal ==
    [][\A t \in Tasks :
          /\ (pc[t] = "selGlobal" /\ pc'[t] \in GlobalFailures)
                => ttsMutex'[ProcOf(t)] = NoTask
          /\ pc'[t] \in GlobalFailures => ttsMutex'[ProcOf(t)] # t]_vars

\* acquireTTSLock failed on an os.Mkdir error and on a cancelled global wait
C9_Witness ==
    /\ \E t \in Tasks : pc[t] = "failFs"
    /\ \E t \in Tasks : pc[t] \in {"failGlobal", "failLoop"}

Waiting(w) == pc[w] \in {"selLocal", "selGlobal"} /\ ~ctxDone[w]

\* C10: whenever the lock is free or stale and an uncancelled waiter exists,
\* eventually some task holds the composed lock (or no uncancelled waiter is left).
C10_Progress ==
    ((lockDir = NoDir \/ isStale(lockDir)) /\ \E w \in Tasks : Waiting(w))
        ~> ((\E t \in Tasks : pc[t] = "holding") \/ ~\E w \in Tasks : Waiting(w))

\* C11: in a process whose sequentialTTS is false a handler gets the no-op
\* release in its first step, starts neither the ttsMutex goroutine nor the
\* acquireLock goroutine, and no step of it (acquisition or release) changes
\* ttsMutex or the lock directory, whoever holds the directory.
C11_DisabledNoOp ==
    [][\A t \in Tasks :
          ~sequentialTTS[ProcOf(t)] =>
             /\ g1'[t] = "none" /\ g2'[t] = "none"
             /\ ttsMutex'[ProcOf(t)] = NoTask
             /\ pc'[t] \in {"idle", "cancelledEarly", "holding", "done", "dead"}
             /\ (pc[t] = "idle" /\ pc'[t] \notin {"idle", "dead"})
                   => /\ pc'[t] = (IF ctxDone[t] THEN "cancelledEarly" ELSE "holding")
                      /\ ttsMutex' = ttsMutex /\ lockDir' = lockDir
             /\ (pc[t] = "holding" /\ pc'[t] \notin {"holding", "dead"})
                   => /\ pc'[t] = "done" /\ released'[t] = 1
                      /\ ttsMutex' = ttsMutex /\ lockDir' = lockDir]_vars

\* a handler of a process with sequentialTTS off runs its operation while a
\* handler of the other process holds the lock directory
C11_Witness ==
    \E t \in Tasks : \E h \in Tasks :
        /\ ~sequentialTTS[ProcOf(t)] /\ pc[t] = "holding"
        /\ sequentialTTS[ProcOf(h)] /\ pc[h] = "holding"
        /\ lockDir.owner = h /\ lockDir.rec = "valid"

\* C12: with sequentialTTS on, the acquireLock goroutine of an acquisition
\* exists only after its ttsMutex goroutine closed acquired, and from the
\* moment acquireLock returned nil for an acquisition until its
\* globalRelease() has removed the directory, the acquisition holds the
\* ttsMutex of its process (ttsMutex.Unlock() comes after globalRelease()).
C12_FacadeOrdering ==
    \A t \in Tasks :
        sequentialTTS[ProcOf(t)] =>
           /\ g2[t] # "none" => g1[t] = "closed"
           /\ (g2[t] = "sentOk" /\ pc[t] \notin {"rel3", "done"}) => ttsMutex[ProcOf(t)] = t

\* C13: an os.Mkdir error other than "already exists" ends acquireLock in
\* that step, without retry and without a directory of its own; acquireTTSLock
\* then returns that error, and it returns a cancellation error only for a
\* token that has fired.
C13_FsErrorFatal ==
    [][\A t \in Tasks :
          /\ g2[t] = "sentFs" => g2'[t] \in {"sentFs", "none"}
          /\ (g2[t] = "mkdir" /\ g2'[t] = "sentFs") => lockDir' = lockDir
          /\ pc'[t] = "failFs" => (g2'[t] = "sentFs" /\ lockDir'.owner # t)
          /\ pc'[t] \in {"cancelledEarly", "failLocal", "failGlobal", "failLoop"} => ctxDone'[t]
          /\ (pc[t] = "selGlobal" /\ g2[t] = "sentFs" /\ ~ctxDone[t]
                /\ pc'[t] \notin {"selGlobal", "dead"})
                => (pc'[t] = "failFs" /\ ttsMutex'[ProcOf(t)] = NoTask)]_vars

\* acquireTTSLock returned the os.Mkdir error to a handler whose token has not fired
C13_Witness ==
    \E t \in Tasks : pc[t] = "failFs" /\ ~ctxDone[t] /\ ttsMutex[ProcOf(t)] = NoTask

\* --------------------------------------- claims on the CancellationManager
\* Every step of the manager that changes its state is the call recorded in
\* last' (or a timer event); last is the call before it.

\* C14: after every step ActiveRequests() is at most maxRequests, and a
\* RegisterCancellable called with the count at or above the maximum returns
\* ErrTooManyRequests.
C14_Capacity ==
    [][/\ ActiveRequests' <= maxRequests
       /\ (last'.op = "RegisterCancellable" /\ ActiveRequests >= maxRequests)
             => last'.ret = "ErrTooManyRequests"]_cmVars

\* a registration was rejected with the registry full
C14_Witness ==
    /\ last.op = "RegisterCancellable" /\ last.ret = "ErrTooManyRequests"
    /\ ActiveRequests = maxRequests

\* C15: after row successful RegisterCancellable calls in a row with one id,
\* both maps hold the latest registration for it, its timer is the only
\* running timer of that id, and the timers of the earlier calls of the row
\* are stopped (a stopped timer never runs its callback).
C15_OneTimerPerId ==
    row >= 1 =>
        LET key == Truncate(last.id)
            k == Len(regs)
        IN  /\ cancellable[key] = k /\ timeouts[key] = k
            /\ regs[k].id = key /\ regs[k].timer = "running"
            /\ \A j \in DOMAIN regs : (j # k /\ regs[j].id = key) => regs[j].timer # "running"
            /\ \A j \in DOMAIN regs :
                  (k - row < j /\ j < k) => (regs[j].id = key /\ regs[j].timer = "stopped")

\* the same id was registered three times in a row
C15_Witness == row >= 3 /\ ActiveRequests = 1

\* C16: Cancel of an id that has an entry calls the stored cancelFunc once
\* and no other, deletes the entry from both maps, leaves its timer not
\* running and returns true; a Cancel of the same id right after it returns
\* false and leaves the registrations as they are.
C16_CancelPresent ==
    [][/\ (last'.op = "Cancel" /\ Exists(last'.id)) =>
             LET id == last'.id
                 k == cancellable[id]
             IN  /\ last'.ret = "true"
                 /\ regs'[k].invoked = regs[k].invoked + 1
                 /\ \A j \in DOMAIN regs : j # k => regs'[j].invoked = regs[j].invoked
                 /\ cancellable'[id] = NoReg /\ timeouts'[id] = NoReg
                 /\ timeouts[id] # NoReg /\ regs'[timeouts[id]].timer # "running"
       /\ (last.op = "Cancel" /\ last.ret = "true" /\ last'.op = "Cancel" /\ last'.id = last.id)
             => (last'.ret = "false" /\ regs' = regs)]_cmVars

\* a Cancel returned true: the cancelFunc ran once and its timer was stopped
C16_Witness ==
    /\ last.op = "Cancel" /\ last.ret = "true"
    /\ \E k \in DOMAIN regs :
          regs[k].id = last.id /\ regs[k].invoked = 1 /\ regs[k].timer = "stopped"

\* C17: Cancel of an id without entry returns false, calls no cancelFunc and
\* changes neither map nor any timer.
C17_CancelUnknown ==
    [][(last'.op = "Cancel" /\ ~Exists(last'.id))
          => (last'.ret = "false" /\ UNCHANGED <<cancellable, timeouts, regs>>)]_cmVars

\* Cancel returned false for an id whose registration had expired, while
\* another id is registered
C17_Witness ==
    /\ last.op = "Cancel" /\ last.ret = "false"
    /\ \E k \in DOMAIN regs : regs[k].id = last.id /\ regs[k].timer = "done"
    /\ ActiveRequests >= 1

\* C18: Cancel(id) right after two or more RegisterCancellable(id, .) in a row
\* calls the cancelFunc of the last registration, not that of the one before,
\* and leaves no entry for id; the cancelFunc of a registration that is not
\* in the map is never called.
C18_Replacement ==
    [][/\ (row >= 2 /\ last'.op = "Cancel" /\ last'.id = last.id) =>
             LET k == Len(regs)
             IN  /\ last'.ret = "true"
                 /\ regs'[k].invoked = 1 /\ regs'[k - 1].invoked = 0
                 /\ ~Exists(last.id)'
       /\ \A j \in DOMAIN regs :
             (\A key \in Keys : cancellable[key] # j) => regs'[j].invoked = regs[j].invoked]_cmVars

\* the second of two registrations of one id was cancelled, the first was not
C18_Witness ==
    /\ last.op = "Cancel" /\ last.ret = "true" /\ Len(regs) >= 2
    /\ LET k == Len(regs)
       IN  /\ regs[k].id = last.id /\ regs[k].invoked = 1
           /\ regs[k - 1].id = last.id /\ regs[k - 1].invoked = 0
           /\ regs[k - 1].timer = "stopped"

\* C19: a RegisterCancellable that returns ErrTooManyRequests changes neither
\* map, no timer and calls no cancelFunc.
C19_RejectionKeepsAll ==
    [][(last'.op = "RegisterCancellable" /\ last'.ret = "ErrTooManyRequests")
          => UNCHANGED <<cancellable, timeouts, regs>>]_cmVars

\* the rejected id has an entry
C19_Witness ==
    /\ last.op = "RegisterCancellable" /\ last.ret = "ErrTooManyRequests"
    /\ Exists(last.id)

\* C20: Complete(id) deletes the entry of id from both maps and leaves its
\* timer not running, calls no cancelFunc and touches no other id; without
\* an entry it changes nothing.
C20_Complete ==
    [][last'.op = "Complete" =>
          LET id == last'.id
          IN  /\ cancellable'[id] = NoReg /\ timeouts'[id] = NoReg
              /\ \A k \in DOMAIN regs : regs'[k].invoked = regs[k].invoked
              /\ timeouts[id] # NoReg => regs'[timeouts[id]].timer # "running"
              /\ \A key \in Keys \ {id} :
                    cancellable'[key] = cancellable[key] /\ timeouts'[key] = timeouts[key]
              /\ (~Exists(id) /\ timeouts[id] = NoReg)
                    => UNCHANGED <<cancellable, timeouts, regs>>]_cmVars

\* the only registration was completed: timer stopped, cancelFunc not called
C20_Witness ==
    /\ last.op = "Complete" /\ Len(regs) = 1
    /\ regs[1].id = last.id /\ regs[1].timer = "stopped" /\ regs[1].invoked = 0
    /\ ActiveRequests = 0

\* ---------------------------------------------------------------- C26
\* C26: a tool handler invoked with a token that has already fired returns
\* the "Request cancelled" result (a result, not an error) and does nothing
\* else: it starts no goroutine of acquireTTSLock, takes neither ttsMutex nor
\* the lock directory, never gets to the guarded operation and has no
\* release function to call.
C26_FiredTokenNoLock ==
    [][\A t \in Tasks :
          ((pc[t] = "idle" /\ ctxDone[t]) \/ pc[t] = "cancelledEarly")
             => /\ pc'[t] \in {"idle", "cancelledEarly", "dead"}
                /\ g1'[t] = "none"
                /\ g2'[t] = "none"
                /\ released'[t] = 0
                /\ ttsMutex'[ProcOf(t)] # t
                /\ lockDir'.owner # t]_vars

\* a handler has returned "Request cancelled" from its early check
C26_Witness == \E t \in Tasks : pc[t] = "cancelledEarly" /\ ctxDone[t]

\* ---------------------------------------------------------------- C28
\* C28: the directory a waiter renames away in atomicCleanupStale is the
\* directory its isStale call examined; it never takes a directory that was
\* created after that call.
C28_RenamesWhatWasJudged ==
    [][\A t \in Tasks :
          (g2[t] = "rename" /\ g2'[t] = "mkdir") => lockDir.owner = judged[t]]_vars

\* ---------------------------------------------------------------- C29
\* C29: a lock directory whose creator is alive and has not invoked its
\* release function stays at the lock path: no step of anyone renames it
\* away or removes it, whatever its record and its age are.
C29_LiveHolderKept ==
    [][\A t \in Tasks :
          (lockDir.owner = t /\ Live(t) /\ released[t] = 0) => lockDir'.owner = t]_vars

\* ---------------------------------------------------------------- C30
\* C30: the two removals of releaseLock change the lock path only when the
\* directory there is the one the releasing acquisition created.
C30_ReleaseOwnOnly ==
    [][\A t \in Tasks :
          (((pc[t] = "rel1" /\ pc'[t] = "rel2") \/ (pc[t] = "rel2" /\ pc'[t] = "rel3"))
              /\ lockDir' # lockDir)
             => lockDir.owner = t]_vars

\* ---------------------------------------------------------------- C22
\* C22: Shutdown stops every timer that could still fire, calls the
\* cancelFunc of every entry stored at that moment once, and leaves both maps
\* empty; a timer event (expiry or callback), whenever it runs, calls no
\* cancelFunc and adds nothing to the maps.
C22_Shutdown ==
    [][/\ last'.op = "Shutdown"
          => /\ \A k \in DOMAIN regs' : regs'[k].timer # "running"
             /\ \A key \in Keys :
                   cancellable[key] # NoReg
                      => regs'[cancellable[key]].invoked = regs[cancellable[key]].invoked + 1
             /\ ActiveRequests' = 0
             /\ \A key \in Keys : timeouts'[key] = NoReg
       /\ last'.op = "timer"
          => /\ \A k \in DOMAIN regs : regs'[k].invoked = regs[k].invoked
             /\ Len(regs') = Len(regs)
             /\ \A key \in Keys :
                   /\ cancellable'[key] \in {cancellable[key], NoReg}
                   /\ timeouts'[key] \in {timeouts[key], NoReg}]_cmVars

\* Shutdown has just run on a manager that had an entry, and a timer that
\* had fired before it still has its callback to run
C22_Witness ==
    /\ last.op = "Shutdown"
    /\ \E k \in DOMAIN regs : regs[k].invoked = 1 /\ regs[k].timer = "stopped"
    /\ \E k \in DOMAIN regs : regs[k].timer = "fired"

\* ---------------------------------------------------------------- C23
\* C23: when the callback of an expired timer runs and the entry of its
\* registration is still the one stored for the id, the entry and the timer
\* are removed from the maps and no cancelFunc is called.
C23_AutoExpiry ==
    [][\A k \in DOMAIN regs :
          (regs[k].timer = "fired" /\ regs'[k].timer = "done" /\ cancellable[regs[k].id] = k)
             => /\ cancellable'[regs[k].id] = NoReg
                /\ timeouts'[regs[k].id] = NoReg
                /\ \A j \in DOMAIN regs : regs'[j].invoked = regs[j].invoked]_cmVars

\* the only registration made has expired, its callback was the latest
\* event, nothing is stored and its cancelFunc was never called
C23_Witness ==
    /\ Len(regs) = 1
    /\ regs[1].timer = "done"
    /\ regs[1].invoked = 0
    /\ last.op = "timer"
    /\ ActiveRequests = 0

\* ---------------------------------------------------------------- C24
\* C24: between two operations of the manager the two maps have the same
\* ids, and the timer stored for an id is the one created by the
\* registration whose cancelFunc is stored for it, created under that id.
C24_NoStaleTimer ==
    \A key \in Keys :
        /\ timeouts[key] = cancellable[key]
        /\ timeouts[key] # NoReg => regs[timeouts[key]].id = key

\* an id was registered, removed and registered again, another id is gone,
\* and the entry stored now has the timer of the latest registration
C24_Witness ==
    /\ Len(regs) = 3
    /\ ActiveRequests = 1
    /\ \E key \in Keys :
          /\ timeouts[key] = 3
          /\ regs[1].id = key
          /\ regs[1].timer \in {"stopped", "done"}
    /\ last.op \in {"Cancel", "Complete", "timer"}

\* ---------------------------------------------------------------- C27
\* C27: on either platform isProcessAlive(pid) returns true exactly when a
\* process with that pid exists on the host, whether or not the caller is
\* allowed to signal or open it.
C27_LivenessProbe ==
    probe.called => (probe.result <=> probe.host[probe.pid] # "absent")

\* ---------------------------------------------------------------- C21
\* C21: a call of WithCancellation whose registration succeeded calls
\* Complete exactly once, whatever its handler returned, and once the call
\* has returned neither map holds the registration it made.
C21_CompleteOnce ==
    \A o \in Ops :
        /\ wrapper[o].completes <= 1
        /\ (wrapper[o].pc = "returned" /\ wrapper[o].reg # NoReg)
              => /\ wrapper[o].completes = 1
                 /\ \A key \in Keys :
                       cancellable[key] # wrapper[o].reg /\ timeouts[key] # wrapper[o].reg

\* three registered calls have returned: one with a result, one with an
\* error, one cancelled through the manager
C21_Witness ==
    /\ \A out \in Outcome :
          \E o \in Ops :
              /\ wrapper[o].pc = "returned"
              /\ wrapper[o].reg # NoReg
              /\ wrapper[o].result = out
    /\ \E o \in Ops :
          wrapper[o].result = "cancelled" /\ regs[wrapper[o].reg].invoked = 1

\* ---------------------------------------------------------------- C25
\* C25: a call of WithCancellation whose RegisterCancellable failed runs its
\* handler once, with the original context, returns what the handler
\* returned, never calls Complete, and none of its steps changes the maps
\* or a registration.
C25_DegradedExecution ==
    [][\A o \in Ops :
          (wrapper'[o] # wrapper[o] /\ wrapper'[o].reg = NoReg)
             => /\ wrapper'[o].ctx = "ctx"
                /\ wrapper'[o].runs = 1
                /\ wrapper'[o].completes = 0
                /\ wrapper'[o].pc \in {"fallback", "returned"}
                /\ wrapper'[o].pc = "returned"
                      => (wrapper'[o].ret = wrapper'[o].result /\ wrapper'[o].ret \in Outcome)
                /\ UNCHANGED <<cancellable, timeouts, regs>>]_<<cmVars, wrapper>>

\* a call rejected at capacity has returned its handler's result while the
\* two calls that fill the registry are still running
C25_Witness ==
    \E o \in Ops :
        /\ wrapper[o].pc = "returned"
        /\ wrapper[o].reg = NoReg
        /\ wrapper[o].ret = "ok"
        /\ ActiveRequests = maxRequests
        /\ \A u \in Ops \ {o} : wrapper[u].pc = "handler"


\* C31: reclaim is a compare-and-swap.  A rename step that finds a directory
\* removes it and the winner retries mkdir at once; a rename step that finds
\* none changes nothing on disk and sends its goroutine to the jittered wait,
\* from which it either retries mkdir or gives up on cancellation.  A
\* directory instance is created once by its owner and never again, so at
\* most one rename of a given instance succeeds.
C31_ReclaimIsCAS ==
    [][\A t \in Tasks :
          /\ (g2[t] = "rename" /\ g2'[t] # "rename" /\ alive' = alive) =>
                IF lockDir # NoDir
                THEN lockDir' = NoDir /\ g2'[t] = "mkdir"
                ELSE lockDir' = lockDir /\ g2'[t] = "wait"
          /\ (g2[t] = "wait" /\ g2'[t] # "wait" /\ alive' = alive) =>
                lockDir' = lockDir /\ g2'[t] \in {"mkdir", "sentCtx"}
          /\ (lockDir.owner # t /\ lockDir'.owner = t) =>
                g2[t] = "mkdir" /\ g2'[t] = "write"
          /\ (g2[t] \in {"write", "sentOk"}) => g2'[t] \in {"write", "sentOk", "none"}
          /\ (g2[t] = "none" /\ g2'[t] # "none") =>
                pc[t] = "selLocal" /\ pc'[t] = "selGlobal" /\ g2'[t] = "mkdir"
      ]_vars

\* two goroutines judged the same dead holder's directory stale; one has
\* renamed it away and is back at mkdir, the other is about to lose
C31_Witness ==
    \E t, u \in Tasks :
        /\ t # u
        /\ g2[u] = "rename"
        /\ judged[u] # NoTask
        /\ ~Live(judged[u])
        /\ lockDir = NoDir
        /\ g2[t] = "mkdir"


\* C32: the record write is best-effort.  Whatever os.WriteFile did, the
\* step after a successful mkdir reports success to acquireLock's caller and
\* the directory stays in place; a waiter that then examines a directory
\* without a readable record reclaims it exactly when it is older than the
\* grace period, and otherwise waits.
C32_BestEffortRecord ==
    [][\A t \in Tasks :
          /\ (g2[t] = "write" /\ g2'[t] # "write" /\ alive' = alive) =>
                /\ g2'[t] = "sentOk"
                /\ (lockDir = NoDir) = (lockDir' = NoDir)
                /\ lockDir'.owner = lockDir.owner
          /\ (g2[t] = "stale" /\ g2'[t] # "stale" /\ alive' = alive
                /\ lockDir.rec \in {"none", "corrupt"}) =>
                /\ g2'[t] = (IF lockDir.old THEN "rename" ELSE "wait")
                /\ lockDir' = lockDir
      ]_vars

\* a handler holds the lock though its directory has no record, and a
\* waiter that found the directory young is in the jittered wait
C32_Witness ==
    \E t, u \in Tasks :
        /\ t # u
        /\ pc[t] = "holding"
        /\ lockDir.owner = t
        /\ lockDir.rec = "none"
        /\ ~lockDir.old
        /\ g2[u] = "wait"


\* C33: cancellation is independent.  A Cancel(id) step changes the two map
\* entries of id only and touches the registration stored under id only: its
\* trigger is invoked once and its timer stopped.  The entry, the timer and
\* the token of every other registration are as before the step.
C33_IndependentCancel ==
    [][last'.op = "Cancel" =>
          /\ \A key \in Keys \ {last'.id} :
                cancellable'[key] = cancellable[key] /\ timeouts'[key] = timeouts[key]
          /\ Len(regs') = Len(regs)
          /\ \A k \in DOMAIN regs :
                IF last'.id \in Keys /\ k = cancellable[last'.id]
                THEN /\ regs'[k].invoked = regs[k].invoked + 1
                     /\ regs'[k].id = regs[k].id
                     /\ cancellable'[last'.id] = NoReg
                     /\ timeouts'[last'.id] = NoReg
                     /\ last'.ret = "true"
                ELSE regs'[k] = regs[k]
      ]_cmVars

\* a Cancel has just succeeded while another request is registered with its
\* timer running and its trigger not invoked
C33_Witness ==
    /\ last.op = "Cancel"
    /\ last.ret = "true"
    /\ \E k \in DOMAIN regs : regs[k].id = last.id /\ regs[k].invoked = 1
    /\ \E key \in Keys \ {last.id} :
          /\ cancellable[key] # NoReg
          /\ timeouts[key] = cancellable[key]
          /\ regs[cancellable[key]].timer = "running"
          /\ regs[cancellable[key]].invoked = 0


\* C39: the manager calls the trigger of a registration at most once.  A
\* trigger is called only by Cancel or Shutdown, only while it is the one
\* stored under its id, and the step that calls it removes it from the map;
\* a registration that is no longer stored (completed, expired, replaced,
\* cancelled) is never stored again, so its trigger is not called later.
C39_TriggerAtMostOnce ==
    [][\A k \in DOMAIN regs :
          /\ regs[k].invoked <= 1
          /\ k \in DOMAIN regs'
          /\ regs'[k].invoked <= 1
          /\ regs'[k].invoked # regs[k].invoked =>
                /\ regs[k].invoked = 0
                /\ cancellable[regs[k].id] = k
                /\ cancellable'[regs[k].id] = NoReg
                /\ last'.op \in {"Cancel", "Shutdown"}
          /\ (\A key \in Keys : cancellable[key] # k) =>
                (\A key \in Keys : cancellable'[key] # k)
      ]_cmVars

\* a second Cancel for an id whose trigger was already called found nothing
\* to call, and the trigger of an expired registration was never called
C39_Witness ==
    /\ last.op = "Cancel"
    /\ last.ret = "false"
    /\ \E k \in DOMAIN regs : regs[k].id = last.id /\ regs[k].invoked = 1
    /\ \E j \in DOMAIN regs : regs[j].timer = "done" /\ regs[j].invoked = 0


\* C36: an expiry timer removes only its own registration.  When the
\* callback of a timer that fired runs after its id was registered again,
\* the registration stored under the id now is not its own: the callback
\* leaves both maps as they are and stops no other timer.
C36_ExpiryOwnOnly ==
    [][\A k \in DOMAIN regs :
          (/\ regs[k].timer = "fired"
           /\ regs'[k].timer = "done"
           /\ cancellable[regs[k].id] # k) =>
              /\ cancellable' = cancellable
              /\ timeouts' = timeouts
              /\ \A j \in DOMAIN regs : j # k => regs'[j] = regs[j]
      ]_cmVars


\* C37: Complete is scoped to the completing call.  When a wrapped call
\* returns while another wrapped call is running with its registration
\* stored, the deferred Complete of the first leaves the registration of the
\* second stored under its id, with its timer running as before.
C37_CompleteScoped ==
    [][\A o, u \in Ops :
          (/\ o # u
           /\ wrapper[o].pc = "handler"
           /\ wrapper'[o].pc = "returned"
           /\ wrapper[u].pc = "handler"
           /\ cancellable[wrapper[u].requestID] = wrapper[u].reg) =>
              /\ cancellable'[wrapper[u].requestID] = wrapper[u].reg
              /\ regs'[wrapper[u].reg] = regs[wrapper[u].reg]
      ]_<<cmVars, wrapper>>


\* C38: the three operations agree on the key.  For every id, a Cancel(id)
\* that directly follows a successful RegisterCancellable(id) returns true
\* and calls the trigger just registered, and a Complete(id) that directly
\* follows it leaves nothing stored for the registration.
C38_SameKey ==
    [][(last.op = "RegisterCancellable" /\ last.ret = "nil" /\ last'.id = last.id) =>
          /\ last'.op = "Cancel" =>
                /\ last'.ret = "true"
                /\ regs'[Len(regs)].invoked = regs[Len(regs)].invoked + 1
          /\ last'.op = "Complete" =>
                /\ \A key \in Keys : cancellable'[key] # Len(regs)
                /\ \A key \in Keys : timeouts'[key] # Len(regs)
      ]_cmVars


\* C34: an operation is cancellable while it waits for the lock.  In the
\* runs in which a token is fired only while its handler is blocked behind
\* another operation that holds the lock, a handler whose token has fired
\* never holds the lock.
C34_CancelledWhileWaiting ==
    \A t \in Tasks : ctxDone[t] => pc[t] # "holding"

\* C35: output stops before the lock is handed on.  Once the token of a
\* call has fired during its playback, there is no state in which the lock
\* is free or with the next operation while the loudspeaker still gets
\* output of that call.
C35_SilentBeforeRelease ==
    (play.firedInPlayback /\ play.lock # "call") => play.audio # "playing"
====
